---- MODULE Spec2Model ----
(***************************************************************************)
(* Model of backend/app.py: a Flask application that keeps Client and      *)
(* Requirement rows in a SQLite database through SQLAlchemy and publishes  *)
(* change events through Flask-SocketIO.                                   *)
(*                                                                         *)
(* Each HTTP handler runs in its own thread with its own SQLAlchemy        *)
(* session.  A handler is modelled as the sequence of its statements that  *)
(* touch shared state (the database, the Socket.IO channel); every such    *)
(* statement is one atomic step, so handlers of different workers          *)
(* interleave between their query, their commit and their emit.            *)
(*                                                                         *)
(* Python None / SQL NULL is the string None in text columns and NoId in   *)
(* id positions.  The HTTP response and the Socket.IO message produced by  *)
(* a step are outputs: `response' and `emitted' hold what the LAST step    *)
(* produced and are reset by the next step.                                *)
(***************************************************************************)
EXTENDS Integers, FiniteSets, Sequences, TLC

VARIABLES
    clients,            \* table client: id -> row                     (l.27-36)
    requirements,       \* table requirement: id -> row                (l.54-62)
    nextId,             \* the next fresh uuid.uuid4()                 (l.28, l.55)
    now,                \* datetime.utcnow(), in clock ticks           (l.35-36)
    session,            \* per worker: the request in flight and its db.session
    response,           \* the HTTP response returned by the last step
    emitted,            \* the Socket.IO message sent by the last step
    connected,          \* Socket.IO observers currently connected     (l.310-317)
    dashboard           \* members of the room 'dashboard'             (l.319-326)

vars == <<clients, requirements, nextId, now,
          session, response, emitted, connected, dashboard>>

\* ------------------------------------------------------------------ bounds
MaxIds == 3             \* uuid4 values ever issued
UpdateMaxIds == 2       \* uuid4 values ever issued under UpdateSpec
MaxClock == 1           \* clock ticks
NumObservers == 2       \* Socket.IO observers

Workers == {"w1", "w2"}
Observers == 1..NumObservers

\* ------------------------------------------------------------- python values
None == "None"
NoId == 0

\* dict.get(key) and dict.get(key, default)
Get(data, k) == IF k \in DOMAIN data THEN data[k] ELSE None
GetDefault(data, k, d) == IF k \in DOMAIN data THEN data[k] ELSE d
GetId(data, k) == IF k \in DOMAIN data THEN data[k] ELSE NoId

\* datetime.strftime('%Y-%m-%d %H:%M:%S'): the stored value has sub-second
\* precision, the formatted one is cut to whole seconds.
TicksPerSecond == 2
strftime(t) == t \div TicksPerSecond

\* ------------------------------------------------------------------ models
ClientColumns == {"name", "email", "phone", "company", "description", "status"}
RequirementColumns == {"title", "description", "priority", "status"}

\* Client.to_dict
Client_to_dict(id, c) ==
    [id |-> id, name |-> c.name, email |-> c.email, phone |-> c.phone,
     company |-> c.company, description |-> c.description, status |-> c.status,
     createdAt |-> strftime(c.created_at), updatedAt |-> strftime(c.updated_at)]

\* Requirement.to_dict
Requirement_to_dict(id, r) ==
    [id |-> id, clientId |-> r.client_id, title |-> r.title,
     description |-> r.description, priority |-> r.priority, status |-> r.status,
     createdAt |-> strftime(r.created_at), updatedAt |-> strftime(r.updated_at)]

\* --------------------------------------------------------------- database
\* Column defaults applied by the INSERT: a None attribute of a column with a
\* default is left out of the INSERT and takes the default.
ClientInsertRow(obj, t) ==
    [name |-> obj.name, email |-> obj.email, phone |-> obj.phone,
     company |-> obj.company, description |-> obj.description,
     status |-> IF obj.status = None THEN "active" ELSE obj.status,
     created_at |-> t, updated_at |-> t]

RequirementInsertRow(obj, t) ==
    [client_id |-> obj.client_id, title |-> obj.title,
     description |-> obj.description,
     priority |-> IF obj.priority = None THEN "medium" ELSE obj.priority,
     status |-> IF obj.status = None THEN "pending" ELSE obj.status,
     created_at |-> t, updated_at |-> t]

\* (mutant: the column email declared without unique=True)
ClientConstraintsNoUnique(tbl, id, row) ==
    /\ row.name # None
    /\ row.email # None

\* Constraints of table client checked by the database when row `row' is
\* written under id `id': name and email NOT NULL, email UNIQUE.
ClientConstraints(tbl, id, row) ==
    /\ row.name # None
    /\ row.email # None
    /\ \A c \in DOMAIN tbl \ {id} : tbl[c].email # row.email

\* Constraints of table requirement: client_id and title NOT NULL.  The
\* FOREIGN KEY of client_id is declared but SQLite does not enforce foreign
\* keys unless PRAGMA foreign_keys=ON is issued on the connection, which the
\* application never does (the engine is the plain sqlite:/// URI of l.14).
RequirementConstraints(row) ==
    /\ row.client_id # NoId
    /\ row.title # None

\* The attributes of a loaded object that its session holds as modified: an
\* assignment of the value loaded leaves the attribute unmodified.
Dirty(loaded, obj, cols) ==
    [k \in {c \in cols : obj[c] # loaded[c]} |-> obj[k]]

\* The UPDATE a flush issues for a modified object: only the modified
\* columns are written, and updated_at is refreshed (onupdate).  No UPDATE
\* is issued for an object without modified attributes.
UpdateRow(row, dirty, t) ==
    [k \in DOMAIN row |->
        IF k \in DOMAIN dirty THEN dirty[k]
        ELSE IF k = "updated_at" THEN t
        ELSE row[k]]

\* Removing rows from a table.
Without(tbl, ids) == [i \in DOMAIN tbl \ ids |-> tbl[i]]

\* ------------------------------------------------------------ the channel
NoEvent == [name |-> "none"]
NoResponse == [status |-> 0]

\* (mutant: the event goes to the room 'dashboard' only)
BroadcastToRoom(name, payload) == [name |-> name, payload |-> payload, to |-> dashboard]

\* socketio.emit(name, payload, broadcast=True): to every connected observer.
Broadcast(name, payload) == [name |-> name, payload |-> payload, to |-> connected]

\* --------------------------------------------------------------- sessions
\* A worker's request in flight: the handler (op), the statement it is at
\* (pc), the id of the row it works on, the request body, and what its
\* db.session holds to be flushed (pending): the modified attributes of the
\* object loaded by an update, the requirements a delete cascades to.
Idle == [op |-> "idle", pc |-> "idle", id |-> NoId, data |-> <<>>, pending |-> <<>>]

\* The creations in flight that have not drawn their id yet.
Creating ==
    Cardinality({w \in Workers :
        /\ session[w].op \in {"create_client", "create_requirement"}
        /\ session[w].pc = "commit"})

\* return jsonify(...), status: the request ends; its session is discarded.
Return(w, op, status, data) ==
    /\ session' = [session EXCEPT ![w] = Idle]
    /\ response' = [worker |-> w, op |-> op, status |-> status, data |-> data]

\* The handler goes on to its next statement.
Goto(w, s) ==
    /\ session' = [session EXCEPT ![w] = s]
    /\ response' = NoResponse

\* After a successful commit the session holds only the identity of its object.
AtEmit(w, id) ==
    [op |-> session[w].op, pc |-> "emit", id |-> id, data |-> <<>>, pending |-> <<>>]

\* (mutant: the event is out before the exception is raised)
EmitThenRaise(w, op, exists, event, status, data) ==
    \/ /\ exists
       /\ emitted' = event
       /\ Return(w, op, status, data)
    \/ /\ exists
       /\ emitted' = event
       /\ Return(w, op, 500, "TypeError")
    \/ /\ ~exists
       /\ emitted' = NoEvent
       /\ Return(w, op, 500, "ObjectDeletedError")

\* socketio.emit(...) followed by the return of the success response.  The
\* payload is built by to_dict() on an object expired by the commit, which
\* reloads its row (`exists': the row is still there; ObjectDeletedError
\* otherwise).  emit itself either publishes or raises (python-socketio 5
\* rejects the keyword broadcast with a TypeError, earlier releases ignore
\* it); an exception reaches the handler's except clause, whose rollback
\* finds nothing to roll back after the commit.
EmitAndReturn(w, op, exists, event, status, data) ==
    \/ /\ exists
       /\ emitted' = event
       /\ Return(w, op, status, data)
    \/ /\ exists
       /\ emitted' = NoEvent
       /\ Return(w, op, 500, "TypeError")
    \/ /\ ~exists
       /\ emitted' = NoEvent
       /\ Return(w, op, 500, "ObjectDeletedError")

DbUnchanged == UNCHANGED <<clients, requirements, nextId>>
EnvUnchanged == UNCHANGED <<now, connected, dashboard>>

\* ---------------------------------------------------------- clients routes
\* GET /api/clients
get_clients(w) ==
    /\ session[w].pc = "idle"
    /\ Return(w, "get_clients", 200,
              {Client_to_dict(c, clients[c]) : c \in DOMAIN clients})
    /\ emitted' = NoEvent
    /\ DbUnchanged /\ EnvUnchanged

\* POST /api/clients, l.93-106: the uniqueness query, then the new object.
create_client_query(w, data) ==
    /\ session[w].pc = "idle"
    /\ IF \E c \in DOMAIN clients : clients[c].email = Get(data, "email")
       THEN Return(w, "create_client", 400, "Email ya existe")
       ELSE Goto(w, [op |-> "create_client", pc |-> "commit", id |-> NoId,
                     data |-> data, pending |-> <<>>])
    /\ emitted' = NoEvent
    /\ DbUnchanged /\ EnvUnchanged

\* Client(name=..., email=..., ...) of l.99-106
NewClient(data) ==
    [name |-> Get(data, "name"), email |-> Get(data, "email"),
     phone |-> Get(data, "phone"), company |-> Get(data, "company"),
     description |-> Get(data, "description"),
     status |-> GetDefault(data, "status", "active")]

\* l.108-109: db.session.add, db.session.commit (l.119: rollback on error)
create_client_commit(w) ==
    /\ session[w].op = "create_client" /\ session[w].pc = "commit"
    /\ LET row == ClientInsertRow(NewClient(session[w].data), now)
           id == nextId
       IN IF ClientConstraints(clients, id, row)
          THEN /\ clients' = (id :> row) @@ clients
               /\ nextId' = nextId + 1
               /\ Goto(w, AtEmit(w, id))
          ELSE /\ UNCHANGED <<clients, nextId>>
               /\ Return(w, "create_client", 500, "IntegrityError")
    /\ emitted' = NoEvent
    /\ UNCHANGED requirements /\ EnvUnchanged

\* l.112-117: emit client_created, return 201
create_client_emit(w) ==
    /\ session[w].op = "create_client" /\ session[w].pc = "emit"
    /\ LET id == session[w].id
           exists == id \in DOMAIN clients
           dict == IF exists THEN Client_to_dict(id, clients[id]) ELSE <<>>
       IN EmitAndReturn(w, "create_client", exists,
                        Broadcast("client_created", [client |-> dict]), 201, dict)
    /\ DbUnchanged /\ EnvUnchanged

\* GET /api/clients/<client_id>
get_client(w, client_id) ==
    /\ session[w].pc = "idle"
    /\ IF client_id \in DOMAIN clients
       THEN Return(w, "get_client", 200, Client_to_dict(client_id, clients[client_id]))
       ELSE Return(w, "get_client", 404, "Cliente no encontrado")
    /\ emitted' = NoEvent
    /\ DbUnchanged /\ EnvUnchanged

\* (mutant: phone assigned data.get('phone'), without the default)
MergeClientClobber(loaded, data) ==
    [name |-> GetDefault(data, "name", loaded.name),
     email |-> GetDefault(data, "email", loaded.email),
     phone |-> Get(data, "phone"),
     company |-> GetDefault(data, "company", loaded.company),
     description |-> GetDefault(data, "description", loaded.description),
     status |-> GetDefault(data, "status", loaded.status)]

\* l.144-149: client.<column> = data.get('<column>', client.<column>)
MergeClient(loaded, data) ==
    [name |-> GetDefault(data, "name", loaded.name),
     email |-> GetDefault(data, "email", loaded.email),
     phone |-> GetDefault(data, "phone", loaded.phone),
     company |-> GetDefault(data, "company", loaded.company),
     description |-> GetDefault(data, "description", loaded.description),
     status |-> GetDefault(data, "status", loaded.status)]

\* PUT /api/clients/<client_id>, l.139-149: load the client, assign its
\* attributes
update_client_query(w, client_id, data) ==
    /\ session[w].pc = "idle"
    /\ IF client_id \in DOMAIN clients
       THEN Goto(w, [op |-> "update_client", pc |-> "commit", id |-> client_id,
                     data |-> data,
                     pending |-> Dirty(clients[client_id],
                                       MergeClient(clients[client_id], data),
                                       ClientColumns)])
       ELSE Return(w, "update_client", 404, "Cliente no encontrado")
    /\ emitted' = NoEvent
    /\ DbUnchanged /\ EnvUnchanged

\* l.151: db.session.commit.  An UPDATE that matches no row (the row was
\* deleted meanwhile) raises StaleDataError.
update_client_commit(w) ==
    /\ session[w].op = "update_client" /\ session[w].pc = "commit"
    /\ LET id == session[w].id
           dirty == session[w].pending
       IN IF DOMAIN dirty = {}
          THEN /\ UNCHANGED clients
               /\ Goto(w, AtEmit(w, id))
          ELSE IF id \notin DOMAIN clients
          THEN /\ UNCHANGED clients
               /\ Return(w, "update_client", 500, "StaleDataError")
          ELSE LET row == UpdateRow(clients[id], dirty, now)
               IN IF ClientConstraints(clients, id, row)
                  THEN /\ clients' = [clients EXCEPT ![id] = row]
                       /\ Goto(w, AtEmit(w, id))
                  ELSE /\ UNCHANGED clients
                       /\ Return(w, "update_client", 500, "IntegrityError")
    /\ emitted' = NoEvent
    /\ UNCHANGED <<requirements, nextId>> /\ EnvUnchanged

\* l.154-159: emit client_updated, return 200
update_client_emit(w) ==
    /\ session[w].op = "update_client" /\ session[w].pc = "emit"
    /\ LET id == session[w].id
           exists == id \in DOMAIN clients
           dict == IF exists THEN Client_to_dict(id, clients[id]) ELSE <<>>
       IN EmitAndReturn(w, "update_client", exists,
                        Broadcast("client_updated", [client |-> dict]), 200, dict)
    /\ DbUnchanged /\ EnvUnchanged

\* DELETE /api/clients/<client_id>, l.167-171: load the client and mark it
\* deleted; the delete cascade loads its requirements (l.39).
delete_client_query(w, client_id) ==
    /\ session[w].pc = "idle"
    /\ IF client_id \in DOMAIN clients
       THEN Goto(w, [op |-> "delete_client", pc |-> "commit", id |-> client_id,
                     data |-> <<>>,
                     pending |-> {r \in DOMAIN requirements :
                                    requirements[r].client_id = client_id}])
       ELSE Return(w, "delete_client", 404, "Cliente no encontrado")
    /\ emitted' = NoEvent
    /\ DbUnchanged /\ EnvUnchanged

\* l.172: db.session.commit: DELETE the requirements loaded, then the client.
\* A DELETE that matches no row (deleted meanwhile) raises StaleDataError in
\* SQLAlchemy 1.4 and later and only warns in earlier releases.
delete_client_commit(w) ==
    /\ session[w].op = "delete_client" /\ session[w].pc = "commit"
    /\ LET id == session[w].id
           children == session[w].pending
           stale == id \notin DOMAIN clients \/ ~(children \subseteq DOMAIN requirements)
       IN \/ /\ clients' = Without(clients, {id})
             /\ requirements' = Without(requirements, children)
             /\ Goto(w, AtEmit(w, id))
          \/ /\ stale
             /\ UNCHANGED <<clients, requirements>>
             /\ Return(w, "delete_client", 500, "StaleDataError")
    /\ emitted' = NoEvent
    /\ UNCHANGED nextId /\ EnvUnchanged

\* l.175-180: emit client_deleted, return 200
delete_client_emit(w) ==
    /\ session[w].op = "delete_client" /\ session[w].pc = "emit"
    /\ EmitAndReturn(w, "delete_client", TRUE,
                     Broadcast("client_deleted", [clientId |-> session[w].id]),
                     200, "Cliente eliminado")
    /\ DbUnchanged /\ EnvUnchanged

\* ----------------------------------------------------- requirements routes
\* GET /api/requirements?client_id=
get_requirements(w, client_id) ==
    /\ session[w].pc = "idle"
    /\ Return(w, "get_requirements", 200,
              IF client_id # NoId
              THEN {Requirement_to_dict(r, requirements[r]) :
                      r \in {q \in DOMAIN requirements :
                                requirements[q].client_id = client_id}}
              ELSE {Requirement_to_dict(r, requirements[r]) : r \in DOMAIN requirements})
    /\ emitted' = NoEvent
    /\ DbUnchanged /\ EnvUnchanged

\* (mutant: the requirement is built without looking the client up)
create_requirement_unverified(w, data) ==
    /\ session[w].pc = "idle"
    /\ Goto(w, [op |-> "create_requirement", pc |-> "commit", id |-> NoId,
                data |-> data, pending |-> <<>>])
    /\ emitted' = NoEvent
    /\ DbUnchanged /\ EnvUnchanged

\* POST /api/requirements, l.205-218: verify the client exists
create_requirement_query(w, data) ==
    /\ session[w].pc = "idle"
    /\ IF GetId(data, "clientId") \in DOMAIN clients
       THEN Goto(w, [op |-> "create_requirement", pc |-> "commit", id |-> NoId,
                     data |-> data, pending |-> <<>>])
       ELSE Return(w, "create_requirement", 404, "Cliente no encontrado")
    /\ emitted' = NoEvent
    /\ DbUnchanged /\ EnvUnchanged

\* Requirement(client_id=..., title=..., ...) of l.212-218
NewRequirement(data) ==
    [client_id |-> GetId(data, "clientId"), title |-> Get(data, "title"),
     description |-> Get(data, "description"),
     priority |-> GetDefault(data, "priority", "medium"),
     status |-> GetDefault(data, "status", "pending")]

\* l.220-221: db.session.add, db.session.commit (l.231: rollback on error)
create_requirement_commit(w) ==
    /\ session[w].op = "create_requirement" /\ session[w].pc = "commit"
    /\ LET row == RequirementInsertRow(NewRequirement(session[w].data), now)
           id == nextId
       IN IF RequirementConstraints(row)
          THEN /\ requirements' = (id :> row) @@ requirements
               /\ nextId' = nextId + 1
               /\ Goto(w, AtEmit(w, id))
          ELSE /\ UNCHANGED <<requirements, nextId>>
               /\ Return(w, "create_requirement", 500, "IntegrityError")
    /\ emitted' = NoEvent
    /\ UNCHANGED clients /\ EnvUnchanged

\* l.224-229: emit requirement_created, return 201
create_requirement_emit(w) ==
    /\ session[w].op = "create_requirement" /\ session[w].pc = "emit"
    /\ LET id == session[w].id
           exists == id \in DOMAIN requirements
           dict == IF exists THEN Requirement_to_dict(id, requirements[id]) ELSE <<>>
       IN EmitAndReturn(w, "create_requirement", exists,
                        Broadcast("requirement_created", [requirement |-> dict]),
                        201, dict)
    /\ DbUnchanged /\ EnvUnchanged

\* l.242-245: requirement.<column> = data.get('<column>', requirement.<column>)
MergeRequirement(loaded, data) ==
    [title |-> GetDefault(data, "title", loaded.title),
     description |-> GetDefault(data, "description", loaded.description),
     priority |-> GetDefault(data, "priority", loaded.priority),
     status |-> GetDefault(data, "status", loaded.status)]

\* PUT /api/requirements/<requirement_id>, l.237-245: load the requirement,
\* assign its attributes
update_requirement_query(w, requirement_id, data) ==
    /\ session[w].pc = "idle"
    /\ IF requirement_id \in DOMAIN requirements
       THEN Goto(w, [op |-> "update_requirement", pc |-> "commit",
                     id |-> requirement_id, data |-> data,
                     pending |-> Dirty(requirements[requirement_id],
                                       MergeRequirement(requirements[requirement_id], data),
                                       RequirementColumns)])
       ELSE Return(w, "update_requirement", 404, "Requerimiento no encontrado")
    /\ emitted' = NoEvent
    /\ DbUnchanged /\ EnvUnchanged

\* l.247: db.session.commit
update_requirement_commit(w) ==
    /\ session[w].op = "update_requirement" /\ session[w].pc = "commit"
    /\ LET id == session[w].id
           dirty == session[w].pending
       IN IF DOMAIN dirty = {}
          THEN /\ UNCHANGED requirements
               /\ Goto(w, AtEmit(w, id))
          ELSE IF id \notin DOMAIN requirements
          THEN /\ UNCHANGED requirements
               /\ Return(w, "update_requirement", 500, "StaleDataError")
          ELSE LET row == UpdateRow(requirements[id], dirty, now)
               IN IF RequirementConstraints(row)
                  THEN /\ requirements' = [requirements EXCEPT ![id] = row]
                       /\ Goto(w, AtEmit(w, id))
                  ELSE /\ UNCHANGED requirements
                       /\ Return(w, "update_requirement", 500, "IntegrityError")
    /\ emitted' = NoEvent
    /\ UNCHANGED <<clients, nextId>> /\ EnvUnchanged

\* l.250-255: emit requirement_updated, return 200
update_requirement_emit(w) ==
    /\ session[w].op = "update_requirement" /\ session[w].pc = "emit"
    /\ LET id == session[w].id
           exists == id \in DOMAIN requirements
           dict == IF exists THEN Requirement_to_dict(id, requirements[id]) ELSE <<>>
       IN EmitAndReturn(w, "update_requirement", exists,
                        Broadcast("requirement_updated", [requirement |-> dict]),
                        200, dict)
    /\ DbUnchanged /\ EnvUnchanged

\* DELETE /api/requirements/<requirement_id>, l.263-267
delete_requirement_query(w, requirement_id) ==
    /\ session[w].pc = "idle"
    /\ IF requirement_id \in DOMAIN requirements
       THEN Goto(w, [op |-> "delete_requirement", pc |-> "commit",
                     id |-> requirement_id, data |-> <<>>, pending |-> <<>>])
       ELSE Return(w, "delete_requirement", 404, "Requerimiento no encontrado")
    /\ emitted' = NoEvent
    /\ DbUnchanged /\ EnvUnchanged

\* l.268: db.session.commit (a DELETE matching no row: see delete_client_commit)
delete_requirement_commit(w) ==
    /\ session[w].op = "delete_requirement" /\ session[w].pc = "commit"
    /\ LET id == session[w].id
       IN \/ /\ requirements' = Without(requirements, {id})
             /\ Goto(w, AtEmit(w, id))
          \/ /\ id \notin DOMAIN requirements
             /\ UNCHANGED requirements
             /\ Return(w, "delete_requirement", 500, "StaleDataError")
    /\ emitted' = NoEvent
    /\ UNCHANGED <<clients, nextId>> /\ EnvUnchanged

\* l.271-276: emit requirement_deleted, return 200
delete_requirement_emit(w) ==
    /\ session[w].op = "delete_requirement" /\ session[w].pc = "emit"
    /\ EmitAndReturn(w, "delete_requirement", TRUE,
                     Broadcast("requirement_deleted", [requirementId |-> session[w].id]),
                     200, "Requerimiento eliminado")
    /\ DbUnchanged /\ EnvUnchanged

\* ------------------------------------------------------------ stats, health
\* SQL comparison with NULL is neither true nor false: a row whose status is
\* NULL satisfies neither status != 'completed' nor status = 'completed'.
SqlNotEqual(a, b) == a # None /\ b # None /\ a # b
SqlEqual(a, b) == a # None /\ b # None /\ a = b

\* l.285-287
Stats ==
    [totalClients |-> Cardinality(DOMAIN clients),
     activeRequirements |->
        Cardinality({r \in DOMAIN requirements :
                        SqlNotEqual(requirements[r].status, "completed")}),
     completedRequirements |->
        Cardinality({r \in DOMAIN requirements :
                        SqlEqual(requirements[r].status, "completed")})]

\* GET /api/stats
get_stats(w) ==
    /\ session[w].pc = "idle"
    /\ Return(w, "get_stats", 200, Stats)
    /\ emitted' = NoEvent
    /\ DbUnchanged /\ EnvUnchanged

\* GET /api/health
health(w) ==
    /\ session[w].pc = "idle"
    /\ Return(w, "health", 200, "Backend is running")
    /\ emitted' = NoEvent
    /\ DbUnchanged /\ EnvUnchanged

\* --------------------------------------------------------- websocket events
\* @socketio.on('connect'): the reply goes to the connecting observer.
handle_connect(o) ==
    /\ o \notin connected
    /\ connected' = connected \cup {o}
    /\ emitted' = [name |-> "connection_response",
                   payload |-> [data |-> "Conectado al servidor"], to |-> {o}]
    /\ response' = NoResponse
    /\ UNCHANGED <<session, dashboard, now>> /\ DbUnchanged

\* @socketio.on('disconnect'): the server drops the observer from its rooms.
handle_disconnect(o) ==
    /\ o \in connected
    /\ connected' = connected \ {o}
    /\ dashboard' = dashboard \ {o}
    /\ emitted' = NoEvent
    /\ response' = NoResponse
    /\ UNCHANGED <<session, now>> /\ DbUnchanged

\* @socketio.on('join_dashboard'): join_room, then emit to the room.
on_join_dashboard(o) ==
    /\ o \in connected
    /\ dashboard' = dashboard \cup {o}
    /\ emitted' = [name |-> "user_joined",
                   payload |-> [message |-> "Te uniste al dashboard"],
                   to |-> dashboard \cup {o}]
    /\ response' = NoResponse
    /\ UNCHANGED <<session, connected, now>> /\ DbUnchanged

\* @socketio.on('leave_dashboard')
on_leave_dashboard(o) ==
    /\ o \in connected
    /\ dashboard' = dashboard \ {o}
    /\ emitted' = NoEvent
    /\ response' = NoResponse
    /\ UNCHANGED <<session, connected, now>> /\ DbUnchanged

\* datetime.utcnow() advances.
Tick ==
    /\ now < MaxClock
    /\ now' = now + 1
    /\ emitted' = NoEvent
    /\ response' = NoResponse
    /\ UNCHANGED <<session, connected, dashboard>> /\ DbUnchanged

\* ------------------------------------------------------------------ inputs
\* The inputs of a specification: the ids its requests can name and the ids
\* it lets the server issue (ids), and the request bodies of each route.

\* Request bodies of a sequential client: complete and incomplete creates,
\* partial updates, a clientId that is stored, unknown or absent.
SeqInputs ==
    [ids |-> 1..MaxIds,
     create_client |->
        { [name |-> "A", email |-> "a@x"],
          [name |-> "B", email |-> "b@x", phone |-> "555", status |-> "pending"],
          [email |-> "a@x"],
          [name |-> "A"] },
     update_client |->
        { [name |-> "X"], [phone |-> "123"], [email |-> "a@x"] },
     create_requirement |->
        { [clientId |-> c, title |-> "T"] : c \in 1..MaxIds } \cup
        { [clientId |-> 1, title |-> "T", status |-> "completed"],
          [title |-> "T"],
          [clientId |-> 1] },
     update_requirement |->
        { [status |-> "completed"], [status |-> None],
          [title |-> "U", priority |-> "high"] }]

\* Request bodies of a client that creates an entity and updates it part by
\* part.
UpdateInputs ==
    [ids |-> 1..UpdateMaxIds,
     create_client |-> { [name |-> "A", email |-> "a@x"] },
     update_client |-> { [name |-> "X"], [phone |-> "123"],
                         [email |-> "b@x", company |-> "Co", description |-> "d",
                          status |-> "completed"] },
     create_requirement |-> { [clientId |-> 1, title |-> "T"] },
     update_requirement |-> { [title |-> "U"], [status |-> "completed"],
                              [description |-> "d", priority |-> "high"] }]

\* Request bodies of concurrent clients.
ConcInputs ==
    [ids |-> 1..MaxIds,
     create_client |-> { [name |-> "A", email |-> "a@x"], [name |-> "B", email |-> "b@x"] },
     update_client |-> { [email |-> "a@x"] },
     create_requirement |-> { [clientId |-> c, title |-> "T"] : c \in 1..MaxIds },
     update_requirement |-> { [status |-> "completed"] }]

\* --------------------------------------------------------------------- spec
Init ==
    /\ clients = <<>>
    /\ requirements = <<>>
    /\ nextId = 1
    /\ now = 0
    /\ session = [w \in Workers |-> Idle]
    /\ response = NoResponse
    /\ emitted = NoEvent
    /\ connected = {}
    /\ dashboard = {}

create_client(w, In) ==
    \/ /\ nextId + Creating \in In.ids
       /\ \E data \in In.create_client : create_client_query(w, data)
    \/ create_client_commit(w)
    \/ create_client_emit(w)

update_client(w, In) ==
    \/ \E c \in In.ids, data \in In.update_client : update_client_query(w, c, data)
    \/ update_client_commit(w)
    \/ update_client_emit(w)

delete_client(w, In) ==
    \/ \E c \in In.ids : delete_client_query(w, c)
    \/ delete_client_commit(w)
    \/ delete_client_emit(w)

create_requirement(w, In) ==
    \/ /\ nextId + Creating \in In.ids
       /\ \E data \in In.create_requirement : create_requirement_query(w, data)
    \/ create_requirement_commit(w)
    \/ create_requirement_emit(w)

update_requirement(w, In) ==
    \/ \E r \in In.ids, data \in In.update_requirement :
          update_requirement_query(w, r, data)
    \/ update_requirement_commit(w)
    \/ update_requirement_emit(w)

delete_requirement(w, In) ==
    \/ \E r \in In.ids : delete_requirement_query(w, r)
    \/ delete_requirement_commit(w)
    \/ delete_requirement_emit(w)

\* One client issuing one request after the other.
Next ==
    \/ get_clients("w1")
    \/ create_client("w1", SeqInputs)
    \/ \E c \in SeqInputs.ids : get_client("w1", c)
    \/ update_client("w1", SeqInputs)
    \/ delete_client("w1", SeqInputs)
    \/ \E c \in SeqInputs.ids \cup {NoId} : get_requirements("w1", c)
    \/ create_requirement("w1", SeqInputs)
    \/ update_requirement("w1", SeqInputs)
    \/ delete_requirement("w1", SeqInputs)
    \/ get_stats("w1")
    \/ health("w1")

Spec == Init /\ [][Next]_vars

\* One client creating entities and updating them while time passes.
UpdateNext ==
    \/ create_client("w1", UpdateInputs)
    \/ update_client("w1", UpdateInputs)
    \/ create_requirement("w1", UpdateInputs)
    \/ update_requirement("w1", UpdateInputs)
    \/ Tick

UpdateSpec == Init /\ [][UpdateNext]_vars

\* Requests handled concurrently by the workers.
ConcurrentNext ==
    \E w \in Workers :
        \/ create_client(w, ConcInputs)
        \/ update_client(w, ConcInputs)
        \/ delete_client(w, ConcInputs)
        \/ create_requirement(w, ConcInputs)
        \/ update_requirement(w, ConcInputs)
        \/ delete_requirement(w, ConcInputs)

ConcurrentSpec == Init /\ [][ConcurrentNext]_vars

\* Observers coming and going while one client changes the data.
ChannelNext ==
    \/ create_client("w1", ConcInputs)
    \/ update_client("w1", ConcInputs)
    \/ delete_client("w1", ConcInputs)
    \/ create_requirement("w1", ConcInputs)
    \/ update_requirement("w1", ConcInputs)
    \/ delete_requirement("w1", ConcInputs)
    \/ \E o \in Observers :
          \/ handle_connect(o)
          \/ handle_disconnect(o)
          \/ on_join_dashboard(o)
          \/ on_leave_dashboard(o)

ChannelSpec == Init /\ [][ChannelNext]_vars

\* ================================================================== claims
MutationOps ==
    {"create_client", "update_client", "delete_client",
     "create_requirement", "update_requirement", "delete_requirement"}

EventNameOf ==
    [create_client |-> "client_created", update_client |-> "client_updated",
     delete_client |-> "client_deleted",
     create_requirement |-> "requirement_created",
     update_requirement |-> "requirement_updated",
     delete_requirement |-> "requirement_deleted"]

ChangeEventNames == {EventNameOf[op] : op \in MutationOps}

Failure == {400, 404, 500}

\* Worker w takes a step.
Acts(w) == session'[w] # session[w] \/ (response'.status # 0 /\ response'.worker = w)

\* Some stored client other than `id' has the email of `data'.
EmailInUse(data, id) ==
    \E c \in DOMAIN clients \ {id} : clients[c].email = Get(data, "email")

\* C1 (as claimed): a POST /api/clients whose email is the email of a stored
\* client is answered 400, changes neither table and publishes no event, under
\* any interleaving: the request does not get past its uniqueness query, and
\* any step it takes while another stored client has its email returns 400.
C1_DuplicateEmailIs400 ==
    [][\A w \in Workers :
          /\ (session[w].pc = "idle" /\ session'[w].op = "create_client")
                => ~EmailInUse(session'[w].data, NoId)
          /\ (session[w].op = "create_client" /\ Acts(w)
                /\ EmailInUse(session[w].data, session[w].id))
                => /\ response'.status = 400
                   /\ clients' = clients /\ requirements' = requirements
                   /\ emitted' = NoEvent]_vars

\* The payload of a change event is the entity as stored when it is published,
\* or the id of the entity deleted, which is stored no more.
PayloadIsStored(e, id) ==
    CASE e.name \in {"client_created", "client_updated"} ->
            /\ id \in DOMAIN clients'
            /\ e.payload = [client |-> Client_to_dict(id, clients'[id])]
      [] e.name \in {"requirement_created", "requirement_updated"} ->
            /\ id \in DOMAIN requirements'
            /\ e.payload = [requirement |-> Requirement_to_dict(id, requirements'[id])]
      [] e.name = "client_deleted" ->
            /\ id \notin DOMAIN clients'
            /\ e.payload = [clientId |-> id]
      [] e.name = "requirement_deleted" ->
            /\ id \notin DOMAIN requirements'
            /\ e.payload = [requirementId |-> id]
      [] OTHER -> FALSE

\* C2: a create, update or delete that returns 200 or 201 publishes exactly one
\* event, of the matching name, after its commit, whose payload is the entity
\* as stored at that moment (the id for a delete); a request that fails
\* publishes none, and no step that does not return a response publishes one.
C2_OneEventPerSuccess ==
    [][/\ response'.status = 0 => emitted'.name \notin ChangeEventNames
       /\ (response'.status # 0 /\ response'.op \in MutationOps) =>
            IF response'.status \in {200, 201}
            THEN /\ session[response'.worker].pc = "emit"
                 /\ emitted'.name = EventNameOf[response'.op]
                 /\ PayloadIsStored(emitted', session[response'.worker].id)
            ELSE emitted' = NoEvent
       /\ (response'.status # 0 /\ response'.op \notin MutationOps) =>
            emitted' = NoEvent]_vars

C2_Witness ==
    /\ response.status = 200 /\ response.op = "update_client"
    /\ emitted.name = "client_updated"
    /\ emitted.payload.client.name = "X"
    /\ emitted.payload.client.email = "a@x"

\* C3 (as claimed): in every reachable state, under any interleaving, the
\* client_id of every stored requirement is the id of a stored client.
C3_NoOrphanRequirement ==
    \A r \in DOMAIN requirements : requirements[r].client_id \in DOMAIN clients

\* C4: in every reachable state, under any interleaving of create, update
\* (email included) and delete of clients, no two stored clients have the same
\* email.
C4_EmailUnique ==
    \A c1, c2 \in DOMAIN clients :
        c1 # c2 => clients[c1].email # clients[c2].email

\* An update that would have given a second client the email a@x was refused.
C4_Witness ==
    /\ response.status = 500 /\ response.op = "update_client"
    /\ response.data = "IntegrityError"
    /\ Cardinality(DOMAIN clients) = 2

\* C5: a POST /api/requirements whose clientId is not the id of a stored
\* client (or is absent) is answered 404, adds no requirement and publishes no
\* event: the request gets past the lookup only if the client is stored, and
\* a request that ends at the lookup ends with 404 and changes nothing.
C5_UnknownClientIs404 ==
    [][\A w \in Workers :
          /\ (session[w].pc = "idle" /\ session'[w].op = "create_requirement")
                => GetId(session'[w].data, "clientId") \in DOMAIN clients
          /\ (session[w].pc = "idle" /\ response'.status # 0
                /\ response'.worker = w /\ response'.op = "create_requirement")
                => /\ response'.status = 404
                   /\ requirements' = requirements /\ clients' = clients
                   /\ emitted' = NoEvent]_vars

C5_Witness ==
    /\ response.status = 404 /\ response.op = "create_requirement"
    /\ DOMAIN clients # {}
    /\ requirements = <<>>

\* C6 (as claimed): a mutation request that returns 400, 404 or 500 has
\* persisted nothing and published nothing: the step that returns the failure
\* changes neither table and emits no event, and the request has not committed.
C6_FailureLeavesNoChange ==
    [][(response'.status \in Failure /\ response'.op \in MutationOps) =>
          /\ clients' = clients /\ requirements' = requirements
          /\ emitted' = NoEvent
          /\ session[response'.worker].pc # "emit"]_vars

\* The request of worker w, about to commit, violates validation: a create
\* without a required field, a create or update whose email another stored
\* client has.
ViolatesValidation(w) ==
    LET s == session[w]
    IN /\ s.pc = "commit"
       /\ \/ /\ s.op = "create_client"
             /\ \/ Get(s.data, "name") = None
                \/ Get(s.data, "email") = None
                \/ EmailInUse(s.data, NoId)
          \/ /\ s.op = "create_requirement"
             /\ Get(s.data, "title") = None
          \/ /\ s.op = "update_client"
             /\ "email" \in DOMAIN s.data
             /\ EmailInUse(s.data, s.id)

\* C7 (as claimed): a request that violates validation is answered 400, never
\* 500, and nothing is persisted.
C7_ValidationIs400 ==
    [][\A w \in Workers :
          (ViolatesValidation(w) /\ Acts(w)) =>
              /\ response'.status = 400
              /\ clients' = clients /\ requirements' = requirements]_vars

\* C8: the commit of a successful PUT gives every column supplied in the
\* request the value supplied and leaves every other column, the id, the
\* creation time, the client_id of a requirement and every other row as they
\* were.
C8_PartialUpdateFrame ==
    [][\A w \in Workers :
          (session[w].pc = "commit" /\ session'[w].pc = "emit") =>
              LET id == session[w].id
                  data == session[w].data
              IN /\ session[w].op = "update_client" =>
                    /\ DOMAIN clients' = DOMAIN clients
                    /\ \A c \in DOMAIN clients \ {id} : clients'[c] = clients[c]
                    /\ \A k \in ClientColumns :
                          clients'[id][k] =
                             IF k \in DOMAIN data THEN data[k] ELSE clients[id][k]
                    /\ clients'[id].created_at = clients[id].created_at
                    /\ requirements' = requirements
                 /\ session[w].op = "update_requirement" =>
                    /\ DOMAIN requirements' = DOMAIN requirements
                    /\ \A r \in DOMAIN requirements \ {id} :
                          requirements'[r] = requirements[r]
                    /\ \A k \in RequirementColumns :
                          requirements'[id][k] =
                             IF k \in DOMAIN data THEN data[k] ELSE requirements[id][k]
                    /\ requirements'[id].created_at = requirements[id].created_at
                    /\ requirements'[id].client_id = requirements[id].client_id
                    /\ clients' = clients]_vars

\* Update {name: "X"} and update {phone: "123"} have both been applied to a
\* client created later than time 0 and updated later still.
C8_Witness ==
    \E c \in DOMAIN clients :
        /\ clients[c].name = "X" /\ clients[c].phone = "123"
        /\ clients[c].email = "a@x"
        /\ clients[c].updated_at > clients[c].created_at

\* C9 (as claimed): GET /api/stats returns the number of stored clients, the
\* number of stored requirements whose status is not "completed" and the
\* number whose status is "completed", which add up to the number of stored
\* requirements; it changes nothing and publishes nothing.
C9_StatsCountEveryRequirement ==
    response.status # 0 /\ response.op = "get_stats" =>
        /\ response.status = 200
        /\ response.data.totalClients = Cardinality(DOMAIN clients)
        /\ response.data.activeRequirements =
              Cardinality({r \in DOMAIN requirements :
                              requirements[r].status # "completed"})
        /\ response.data.completedRequirements =
              Cardinality({r \in DOMAIN requirements :
                              requirements[r].status = "completed"})
        /\ response.data.activeRequirements + response.data.completedRequirements
              = Cardinality(DOMAIN requirements)
        /\ emitted = NoEvent

\* C10: a change event goes to every observer connected when it is published,
\* member of the room or not; user_joined goes to the members of the room at
\* that time, the observer that joined among them; connection_response goes to
\* the observer that connected; leaving the room publishes nothing; no event
\* goes to an observer that is not connected, and a disconnected observer is
\* in no room.
C10_Delivery ==
    [][/\ emitted'.name \in ChangeEventNames => emitted'.to = connected'
       /\ emitted'.name = "user_joined" =>
            /\ emitted'.to = dashboard'
            /\ dashboard' \ dashboard \subseteq emitted'.to
            /\ dashboard \subseteq emitted'.to
       /\ emitted'.name = "connection_response" =>
            emitted'.to = connected' \ connected
       /\ emitted'.name # "none" => emitted'.to \subseteq connected'
       /\ (dashboard' # dashboard /\ dashboard' \subseteq dashboard) =>
            emitted' = NoEvent
       /\ dashboard' \subseteq connected']_vars

\* A change event reaches both connected observers, one of them outside the
\* room.
C10_Witness ==
    /\ emitted.name = "client_created"
    /\ connected = {1, 2} /\ dashboard = {1}
    /\ emitted.to = {1, 2}

====
